---- MODULE Spec2Model ----
(***************************************************************************)
(* Model of the iframe resizer plugin (src/main.ts): the document tree,    *)
(* the wrapping of frame elements, the drag listeners and the settings.    *)
(***************************************************************************)
EXTENDS Integers, Sequences, FiniteSets, TLC

VARIABLES
    loaded,     \* the plugin is enabled (between onload and onunload)
    settings,   \* this.settings
    data,       \* the blob kept by saveData / returned by loadData
    frames,     \* iframe elements: marker class, width/height attributes, inline style
    children,   \* the element tree: container node -> its element children (handles apart)
    wrappers,   \* the wrapper divs in creation order: style.width, style.height
    handles,    \* the handle divs in creation order, each with its closure state
    overlays,   \* number of 'iframe-resize-overlay' elements in document.body
    userSelect, \* document.body.style.userSelect
    hovered,    \* the wrappers that match :hover
    nDowns      \* number of pointer-downs so far

vars == <<loaded, settings, data, frames, children, wrappers, handles,
          overlays, userSelect, hovered, nDowns>>

dom == <<frames, children, wrappers, handles>>

(* ------------------------------ bounds -------------------------------- *)

\* wrappers created, over all loads of the plugin
MaxWrappers == 2
\* pointer-downs of a run of Spec
MaxDowns == 2
\* pointer-downs of a run of SpecDrag
MaxDrags == 1

(* ----------------------- strings holding sizes ------------------------ *)

\* A DOM string holding a size: a number and what follows it.
\* "" is Str(0, "empty"), "300" is Str(300, "num"), "300px" is Str(300, "px"),
\* "50%" is Str(50, "%"), "auto" is Str(0, "auto").
Str(n, u) == [n |-> n, u |-> u]
EmptyStr == Str(0, "empty")
Px(n) == Str(n, "px")

DefaultWidth == 600
DefaultHeight == 400

\* a || b that takes b whatever a is
OrElseSecond(a, b) == b
\* JavaScript a || b on strings: the empty string is falsy.
OrElse(a, b) == IF a # EmptyStr THEN a ELSE b

\* a test for '%' that never finds it
NeverPercent(v) == FALSE
\* width.includes('%')
IncludesPercent(v) == v.u = "%"

\* typeof width === 'string' ? width : `${width}px`; iframe.width,
\* computedStyle.width and the literal are all strings, so the first branch
\* is the one taken.
EnsurePixels(v) == v

\* The size written to wrapper.style.width (height): lines 56-69.
InitialSize(attr, computed, default) ==
    LET v == OrElse(OrElse(attr, computed), Px(default))
        w == IF IncludesPercent(v) THEN Px(default) ELSE v
    IN  EnsurePixels(w)

(* ------------------------------ the tree ------------------------------ *)

Node(k, i) == [k |-> k, i |-> i]
Root == Node("root", 0)
Embed == Node("embed", 0)
Para(i) == Node("p", i)
Frame(i) == Node("iframe", i)
Wrapper(i) == Node("wrapper", i)
NoNode == Node("none", 0)

Range(s) == {s[i] : i \in DOMAIN s}

\* node.parentNode, NoNode when the node is detached
ParentOf(ch, n) ==
    IF \E c \in DOMAIN ch : n \in Range(ch[c])
    THEN CHOOSE c \in DOMAIN ch : n \in Range(ch[c])
    ELSE NoNode

IndexOf(s, n) == CHOOSE i \in DOMAIN s : s[i] = n

RECURSIVE Concat(_)
Concat(ss) == IF ss = <<>> THEN <<>> ELSE Head(ss) \o Concat(Tail(ss))

\* element.querySelectorAll('iframe'): the frames below n, in document order
RECURSIVE FramesIn(_, _)
FramesIn(ch, n) ==
    IF n \notin DOMAIN ch THEN <<>>
    ELSE Concat([i \in DOMAIN ch[n] |->
                    IF ch[n][i].k = "iframe" THEN <<ch[n][i].i>>
                    ELSE FramesIn(ch, ch[n][i])])

\* the ancestors of n, nearest first
RECURSIVE Ancestors(_, _)
Ancestors(ch, n) ==
    LET p == ParentOf(ch, n)
    IN  IF p = NoNode THEN <<>> ELSE <<p>> \o Ancestors(ch, p)

InDocument(ch, n) == Root \in Range(Ancestors(ch, n))

\* the 'iframe-resizer-wrapper' ancestors of n
WrapperAncestors(ch, n) == {a \in Range(Ancestors(ch, n)) : a.k = "wrapper"}

(* ------------------------------ settings ------------------------------ *)

DefaultMinWidth == 200
DefaultMinHeight == 150
DefaultHandleSize == 10

DEFAULT_SETTINGS ==
    [minWidth |-> DefaultMinWidth, minHeight |-> DefaultMinHeight,
     handleSize |-> DefaultHandleSize, handleColor |-> "#007acc"]

\* loadData() before anything was saved: no keys
NoData == [k \in {} |-> 0]

\* Object.assign({}, DEFAULT_SETTINGS, await this.loadData())
loadSettings(blob) ==
    [k \in DOMAIN DEFAULT_SETTINGS |->
        IF k \in DOMAIN blob THEN blob[k] ELSE DEFAULT_SETTINGS[k]]

(* ------------------------- wrapping a frame --------------------------- *)

\* The document state makeIframeResizable works on.
Dom(fr, ch, wr, hs) == [frames |-> fr, children |-> ch, wrappers |-> wr, handles |-> hs]

\* addResizeListener: the closure's variables and the two document listeners
addResizeListener(h) ==
    [w |-> h.w, position |-> h.position, opacity |-> h.opacity, resizing |-> h.resizing,
     isResizing |-> FALSE, startX |-> 0, startY |-> 0,
     startWidth |-> 0, startHeight |-> 0, listening |-> TRUE]

\* createResizeHandle: a hidden handle, listening, appended to the wrapper
\* (its classes and opacity are kept; its size, colour and cursor are set once
\* from the settings and read by nothing but the overlay's cursor)
createResizeHandle(d, w, position) ==
    [d EXCEPT !.handles =
        Append(@, addResizeListener(
            [w |-> w, position |-> position, opacity |-> "0", resizing |-> FALSE]))]

\* lines 81-85: insert the wrapper before the frame and move the frame into it
InsertWrapper(ch, f, w) ==
    LET p == ParentOf(ch, Frame(f))
    IN  IF p # NoNode
        THEN [ch EXCEPT ![p][IndexOf(ch[p], Frame(f))] = Wrapper(w)]
                @@ (Wrapper(w) :> <<Frame(f)>>)
        ELSE ch @@ (Wrapper(w) :> <<>>)

\* a frame is taken for unprocessed whatever its classes
NeverProcessed(fr) == FALSE

\* lines 48-51: skip if already processed
AlreadyProcessed(fr) == fr.processed

\* makeIframeResizable(iframe), cs the frame's computed style
makeIframeResizable(d, f, cs) ==
    IF AlreadyProcessed(d.frames[f]) THEN d
    ELSE
        LET fr == d.frames[f]
            width == InitialSize(fr.width, cs.width, DefaultWidth)
            height == InitialSize(fr.height, cs.height, DefaultHeight)
            w == Len(d.wrappers) + 1
            d1 == [d EXCEPT
                     !.wrappers = Append(@, [width |-> width, height |-> height]),
                     !.children = InsertWrapper(@, f, w),
                     !.frames[f] = [processed |-> TRUE, width |-> EmptyStr,
                                    height |-> EmptyStr, style |-> "fill"]]
        IN  createResizeHandle(
                createResizeHandle(
                    createResizeHandle(d1, w, "bottom-right"), w, "bottom"), w, "right")

\* iframes.forEach(iframe => this.makeIframeResizable(iframe))
RECURSIVE forEach(_, _, _)
forEach(d, fs, css) ==
    IF fs = <<>> THEN d
    ELSE forEach(makeIframeResizable(d, Head(fs), css[Head(fs)]), Tail(fs), css)

\* querySelectorAll('iframe:not(.iframe-processed)')
NotProcessed(fr, fs) == SelectSeq(fs, LAMBDA f : ~fr[f].processed)

(* ----------------------------- the inputs ----------------------------- *)

\* getComputedStyle(iframe): of a frame that is laid out (the default size of
\* an iframe), and of a frame in an element that is not in the page yet
ComputedStyles ==
    { [width |-> Px(300), height |-> Px(150)],
      [width |-> EmptyStr, height |-> EmptyStr] }

\* the width and height attributes a frame comes with
Attributes ==
    { [width |-> EmptyStr, height |-> EmptyStr],
      [width |-> Str(300, "num"), height |-> Str(50, "%")],
      [width |-> Str(100, "%"), height |-> Str(200, "num")] }

\* clientX, clientY of the pointer events
Points == { <<0, 0>>, <<50, 30>> }

\* the same with a point far enough for a wrapper to be dragged below the minimum
DragPoints == Points \cup { <<500, 300>> }

\* the document trees the plugin is loaded on
Documents ==
    { (Root :> <<Para(1), Frame(1), Para(2)>>),
      (Root :> <<Para(1), Embed>>) @@ (Embed :> <<Para(2), Frame(1), Para(3)>>) }

\* a frame element that is not in the document yet
Detached == 2

Init ==
    /\ loaded = FALSE
    /\ settings = NoData
    /\ data = NoData
    /\ children \in Documents
    /\ \E a \in Attributes :
        frames = [f \in {Detached} \cup Range(FramesIn(children, Root)) |->
                    [processed |-> FALSE, width |-> a.width, height |-> a.height,
                     style |-> "own"]]
    /\ wrappers = <<>>
    /\ handles = <<>>
    /\ overlays = 0
    /\ userSelect = ""
    /\ hovered = {}
    /\ nDowns = 0

(* ------------------------- load, scan, unload -------------------------- *)

\* the wrappers a scan of the frames fs would create
Needed(fs) == Len(NotProcessed(frames, fs))

SetDom(d) ==
    /\ frames' = d.frames
    /\ children' = d.children
    /\ wrappers' = d.wrappers
    /\ handles' = d.handles

\* onload: load the settings, register the post processor, scan the open views
onload ==
    /\ ~loaded
    /\ LET fs == NotProcessed(frames, FramesIn(children, Root))
       IN  /\ Len(wrappers) + Len(fs) <= MaxWrappers
           /\ \E css \in [Range(fs) -> ComputedStyles] :
                SetDom(forEach(Dom(frames, children, wrappers, handles), fs, css))
    /\ loaded' = TRUE
    /\ settings' = loadSettings(data)
    /\ UNCHANGED <<data, overlays, userSelect, hovered, nDowns>>

\* the markdown post processor, called by the host on a rendered element
postProcessor(element) ==
    /\ loaded
    /\ element \in DOMAIN children
    /\ LET fs == FramesIn(children, element)
       IN  /\ Len(wrappers) + Needed(fs) <= MaxWrappers
           /\ \E css \in [Range(fs) -> ComputedStyles] :
                SetDom(forEach(Dom(frames, children, wrappers, handles), fs, css))
    /\ UNCHANGED <<loaded, settings, data, overlays, userSelect, hovered, nDowns>>

\* the host renders new content: frame f comes into the document, after the
\* other children of the view
render(f) ==
    /\ f \in DOMAIN frames
    /\ ParentOf(children, Frame(f)) = NoNode
    /\ children' = [children EXCEPT ![Root] = Append(@, Frame(f))]
    /\ UNCHANGED <<loaded, settings, data, frames, wrappers, handles,
                   overlays, userSelect, hovered, nDowns>>

\* document.getElementById('iframe-resize-overlay')?.remove()
RemoveOverlay(n) == IF n > 0 THEN n - 1 ELSE 0

\* the callbacks given to this.register (lines 229-232), run on unload
Unregister(hs) == [i \in DOMAIN hs |-> [hs[i] EXCEPT !.listening = FALSE]]

\* lines 249-251: remove the marker from the frames of the document
RemoveProcessed(fr, ch) ==
    [f \in DOMAIN fr |->
        IF InDocument(ch, Frame(f)) THEN [fr[f] EXCEPT !.processed = FALSE] ELSE fr[f]]

\* onunload, and the host's removal of what the plugin registered
onunload ==
    /\ loaded
    /\ loaded' = FALSE
    /\ overlays' = RemoveOverlay(overlays)
    /\ frames' = RemoveProcessed(frames, children)
    /\ handles' = Unregister(handles)
    /\ UNCHANGED <<settings, data, children, wrappers, userSelect, hovered, nDowns>>

(* ------------------------------ dragging ------------------------------ *)

Max(a, b) == IF a >= b THEN a ELSE b

\* wrapper.offsetWidth: the pixel width of the style; a wrapper whose width
\* is no pixel length (auto, or a value the style rejects) is as wide as its
\* in-flow content, which is nothing
Offset(v) == IF v.u = "px" THEN v.n ELSE 0

\* startResize(e) of handle h
startResize(h, wr, x, y) ==
    [h EXCEPT !.isResizing = TRUE, !.resizing = TRUE,
              !.startX = x, !.startY = y,
              !.startWidth = Offset(wr.width), !.startHeight = Offset(wr.height)]

\* the sum without the clamp
Unclamped(minimum, start, delta) == start + delta

\* Math.max(minimum, start + delta)
NewSize(minimum, start, delta) == Max(minimum, start + delta)

\* a resize that sets both sides whatever the handle
resizeBothSides(h, wr, st, x, y) ==
    IF ~h.isResizing THEN wr
    ELSE [wr EXCEPT
            !.width = Px(Max(st.minWidth, h.startWidth + (x - h.startX))),
            !.height = Px(Max(st.minHeight, h.startHeight + (y - h.startY)))]

\* resize(e) of handle h on its wrapper wr
resize(h, wr, st, x, y) ==
    IF ~h.isResizing THEN wr
    ELSE
        LET deltaX == x - h.startX
            deltaY == y - h.startY
            newWidth == Px(NewSize(st.minWidth, h.startWidth, deltaX))
            newHeight == Px(NewSize(st.minHeight, h.startHeight, deltaY))
        IN  CASE h.position = "bottom-right" ->
                    [wr EXCEPT !.width = newWidth, !.height = newHeight]
              [] h.position = "bottom" -> [wr EXCEPT !.height = newHeight]
              [] h.position = "right" -> [wr EXCEPT !.width = newWidth]

\* stopResize() of handle h; hover is wrapper.matches(':hover')
stopResize(h, hover) ==
    IF h.isResizing
    THEN [h EXCEPT !.isResizing = FALSE, !.resizing = FALSE,
                   !.opacity = IF ~hover THEN "0" ELSE @]
    ELSE h

\* the handles whose document listeners are registered, in registration order
Listeners(hs) == SelectSeq([i \in DOMAIN hs |-> i], LAMBDA i : hs[i].listening)

\* mousedown on handle i: the handle's own listener
mousedown(i, x, y) ==
    /\ i \in DOMAIN handles
    /\ InDocument(children, Wrapper(handles[i].w))
    /\ handles' = [handles EXCEPT ![i] = startResize(@, wrappers[handles[i].w], x, y)]
    /\ overlays' = overlays + 1
    /\ userSelect' = "none"
    /\ nDowns' = nDowns + 1
    /\ UNCHANGED <<loaded, settings, data, frames, children, wrappers, hovered>>

\* the registered resize listeners is, run one after the other
RECURSIVE dispatchResize(_, _, _, _, _, _)
dispatchResize(wr, is, hs, st, x, y) ==
    IF is = <<>> THEN wr
    ELSE LET h == hs[Head(is)]
         IN  dispatchResize([wr EXCEPT ![h.w] = resize(h, @, st, x, y)],
                            Tail(is), hs, st, x, y)

\* mousemove on the document
mousemove(x, y) ==
    /\ wrappers' = dispatchResize(wrappers, Listeners(handles), handles, settings, x, y)
    /\ UNCHANGED <<loaded, settings, data, frames, children, handles,
                   overlays, userSelect, hovered, nDowns>>

\* what the registered stopResize listeners is, run one after the other, leave
\* of the handles, the overlays and the body's user-select
RECURSIVE dispatchStopResize(_, _, _)
dispatchStopResize(s, is, hov) ==
    IF is = <<>> THEN s
    ELSE LET i == Head(is)
             h == s.handles[i]
         IN  dispatchStopResize(
                [handles |-> [s.handles EXCEPT ![i] = stopResize(h, h.w \in hov)],
                 overlays |-> IF h.isResizing THEN RemoveOverlay(s.overlays) ELSE s.overlays,
                 userSelect |-> IF h.isResizing THEN "" ELSE s.userSelect],
                Tail(is), hov)

\* mouseup on the document
mouseup ==
    /\ LET s == dispatchStopResize(
                    [handles |-> handles, overlays |-> overlays, userSelect |-> userSelect],
                    Listeners(handles), hovered)
       IN  /\ handles' = s.handles
           /\ overlays' = s.overlays
           /\ userSelect' = s.userSelect
    /\ UNCHANGED <<loaded, settings, data, frames, children, wrappers, hovered, nDowns>>

(* ------------------------------ hovering ------------------------------ *)

\* the wrapper ids among the ancestors of wrapper w
Outer(ch, w) == {a.i : a \in WrapperAncestors(ch, Wrapper(w))}

\* lines 137-139, for each handle of the wrapper
showHandle(h) == [h EXCEPT !.opacity = "0.5"]

\* a mouseleave listener that hides the handle even during its drag
hideHandleAlways(h) == [h EXCEPT !.opacity = "0"]
\* lines 140-144, for each handle of the wrapper
hideHandle(h) == IF ~h.resizing THEN [h EXCEPT !.opacity = "0"] ELSE h

\* the pointer comes over wrapper w (it cannot while an overlay covers the page)
mouseenter(w) ==
    /\ w \in DOMAIN wrappers
    /\ InDocument(children, Wrapper(w))
    /\ overlays = 0
    /\ w \notin hovered
    /\ Outer(children, w) \subseteq hovered
    /\ hovered \subseteq Outer(children, w)
    /\ hovered' = hovered \cup {w}
    /\ handles' = [i \in DOMAIN handles |->
                     IF handles[i].w = w THEN showHandle(handles[i]) ELSE handles[i]]
    /\ UNCHANGED <<loaded, settings, data, frames, children, wrappers,
                   overlays, userSelect, nDowns>>

\* the pointer leaves wrapper w
mouseleave(w) ==
    /\ w \in hovered
    /\ \A v \in hovered : w \notin Outer(children, v)
    /\ hovered' = hovered \ {w}
    /\ handles' = [i \in DOMAIN handles |->
                     IF handles[i].w = w THEN hideHandle(handles[i]) ELSE handles[i]]
    /\ UNCHANGED <<loaded, settings, data, frames, children, wrappers,
                   overlays, userSelect, nDowns>>

(* ---------------------------- settings tab ---------------------------- *)

NaN == [nan |-> TRUE, n |-> 0]
Num(n) == [nan |-> FALSE, n |-> n]

DigitChars == <<"0", "1", "2", "3", "4", "5", "6", "7", "8", "9">>
IsDigit(c) == \E d \in DOMAIN DigitChars : DigitChars[d] = c
DigitVal(c) == (CHOOSE d \in DOMAIN DigitChars : DigitChars[d] = c) - 1

\* the value of the longest prefix of digits of s, and whether there is one
RECURSIVE DigitsPrefix(_, _, _)
DigitsPrefix(s, acc, any) ==
    IF s # <<>> /\ IsDigit(Head(s))
    THEN DigitsPrefix(Tail(s), 10 * acc + DigitVal(Head(s)), TRUE)
    ELSE IF any THEN Num(acc) ELSE NaN

RECURSIVE SkipSpace(_)
SkipSpace(s) == IF s # <<>> /\ Head(s) = " " THEN SkipSpace(Tail(s)) ELSE s

\* parseInt(value): leading white space, a sign, then decimal digits
parseInt(value) ==
    LET s == SkipSpace(value)
    IN  IF s # <<>> /\ Head(s) = "-"
        THEN LET r == DigitsPrefix(Tail(s), 0, FALSE)
             IN  IF r.nan THEN NaN ELSE Num(0 - r.n)
        ELSE IF s # <<>> /\ Head(s) = "+" THEN DigitsPrefix(Tail(s), 0, FALSE)
        ELSE DigitsPrefix(s, 0, FALSE)


\* a test that lets every number through, positive or not
AcceptedAnyNumber(num) == ~num.nan
\* !isNaN(num) && num > 0
Accepted(num) == ~num.nan /\ num.n > 0

\* the texts typed into a numeric setting
Texts ==
    { <<"7", "0", "0">>, <<" ", "7", "0", "0", "p", "x">>, <<"-", "5">>, <<"0">>,
      <<>>, <<"a", "b">> }

\* the two minimum sizes, edited while a drag goes on: a valid and an invalid text
MinimumSettings == {"minWidth", "minHeight"}
MinimumTexts == { <<"7", "0", "0">>, <<"a", "b">> }

\* the onChange callback of a numeric setting
onChange(key, value) ==
    /\ loaded
    /\ LET num == parseInt(value)
       IN  IF Accepted(num)
           THEN /\ settings' = [settings EXCEPT ![key] = num.n]
                /\ data' = settings'
           ELSE UNCHANGED <<settings, data>>
    /\ UNCHANGED <<loaded, frames, children, wrappers, handles, overlays,
                   userSelect, hovered, nDowns>>

(* --------------------------- specifications --------------------------- *)

\* a direct call of makeIframeResizable, on any frame element
call(f) ==
    /\ loaded
    /\ Len(wrappers) < MaxWrappers
    /\ \E cs \in ComputedStyles :
        SetDom(makeIframeResizable(Dom(frames, children, wrappers, handles), f, cs))
    /\ UNCHANGED <<loaded, settings, data, overlays, userSelect, hovered, nDowns>>

Scans ==
    \/ onload
    \/ \E f \in DOMAIN frames : render(f)
    \/ onunload
    \/ \E element \in {Root, Embed} : postProcessor(element)

Pointer ==
    \/ \E p \in Points : mousemove(p[1], p[2])
    \/ mouseup

PointerDown ==
    \E i \in DOMAIN handles : \E p \in Points :
        nDowns < MaxDowns /\ mousedown(i, p[1], p[2])

Hover ==
    \/ \E w \in DOMAIN wrappers : mouseenter(w)
    \/ \E w \in DOMAIN wrappers : mouseleave(w)

\* the plugin in its host: loads, scans, unloads and the pointer
Next ==
    \/ Scans
    \/ PointerDown
    \/ Pointer
    \/ Hover

\* frames that come without width and height attributes
InitPlain ==
    /\ Init
    /\ \A f \in DOMAIN frames : frames[f].width = EmptyStr /\ frames[f].height = EmptyStr

Spec == InitPlain /\ [][Next]_vars

\* loads, scans and unloads alone
NextWrap == Scans

SpecWrap == Init /\ [][NextWrap]_vars

\* one load, then drags while the minimum sizes are being edited
NextDrag ==
    \/ onload
    \/ \E i \in DOMAIN handles : \E p \in DragPoints :
            nDowns < MaxDrags /\ mousedown(i, p[1], p[2])
    \/ \E p \in DragPoints : mousemove(p[1], p[2])
    \/ mouseup
    \/ \E key \in MinimumSettings : \E value \in MinimumTexts : onChange(key, value)

SpecDrag == Init /\ [][NextDrag]_vars

\* loads, scans, unloads and direct calls of makeIframeResizable
NextCall ==
    \/ Scans
    \/ \E f \in DOMAIN frames : call(f)

SpecCall == Init /\ [][NextCall]_vars

\* loads, scans and unloads where a plugin that can be loaded is loaded in the
\* end; the host calls the post processor on what it chooses to
SpecLive == Init /\ [][NextWrap]_vars /\ WF_vars(onload)

\* the three number fields of the settings tab
NumericSettings == {"minWidth", "minHeight", "handleSize"}

\* loads and unloads while the number fields of the settings tab are edited
NextSettings ==
    \/ onload
    \/ onunload
    \/ \E key \in NumericSettings : \E value \in Texts : onChange(key, value)

SpecSettings == Init /\ [][NextSettings]_vars

\* where the pointer goes down in a drag that is never moved
HoverPoints == { <<0, 0>> }

\* loads and unloads, the pointer over and off the wrappers, and drags begun
\* and ended (no pointer-move: it sets sizes alone)
NextHover ==
    \/ onload
    \/ onunload
    \/ \E i \in DOMAIN handles : \E p \in HoverPoints :
            nDowns < MaxDrags /\ mousedown(i, p[1], p[2])
    \/ mouseup
    \/ Hover

SpecHover == InitPlain /\ [][NextHover]_vars

(* ------------------------------- claims ------------------------------- *)

InDoc(f) == InDocument(children, Frame(f))
WrappersOf(f) == WrapperAncestors(children, Frame(f))

\* C1: every frame has at most one wrapper above it, and it carries the
\* 'iframe-processed' marker exactly when it is inside a wrapper.
C1_OneWrapperAndMarkerAgree ==
    \A f \in DOMAIN frames :
        /\ Cardinality(WrappersOf(f)) <= 1
        /\ frames[f].processed <=> WrappersOf(f) # {}

\* C2: once the plugin is unloaded the tree has its pre-plugin shape: the
\* frames are back under their own parents, and no wrapper, no handle, no
\* overlay and no 'iframe-processed' marker is left in the document.
C2_UnloadRestoresTree ==
    (~loaded) =>
        /\ \A n \in DOMAIN children : \A i \in DOMAIN children[n] :
                children[n][i].k # "wrapper"
        /\ \A f \in DOMAIN frames : InDoc(f) =>
                /\ ParentOf(children, Frame(f)) \in {Root, Embed}
                /\ ~frames[f].processed
                /\ frames[f].style = "own"
        /\ \A i \in DOMAIN handles : ~InDocument(children, Wrapper(handles[i].w))
        /\ overlays = 0

\* C3: a scan run twice in a row leaves what one run leaves: the second pass
\* adds no wrapper and no handle and changes no wrapper's size, whether the
\* passes are the post processor's or the scan of onload followed by it.
C3_ScanIdempotent ==
    LET d == Dom(frames, children, wrappers, handles)
    IN  \A css1, css2 \in [DOMAIN frames -> ComputedStyles] :
            /\ \A element \in {Root, Embed} \cap DOMAIN children :
                LET once == forEach(d, FramesIn(d.children, element), css1)
                    twice == forEach(once, FramesIn(once.children, element), css2)
                IN  twice = once
            /\ LET once == forEach(d, NotProcessed(d.frames, FramesIn(d.children, Root)), css1)
                   twice == forEach(once, FramesIn(once.children, Root), css2)
               IN  twice = once

\* C3 witness: a scan has wrapped every frame of the document, and the post
\* processor can run again on the same tree.
C3_Witness ==
    /\ loaded
    /\ Len(wrappers) >= 1
    /\ \A f \in DOMAIN frames : InDoc(f) => frames[f].processed /\ WrappersOf(f) # {}
    /\ \E f \in DOMAIN frames : InDoc(f)

\* what C4 says of a frame f that a scan discovered
WrappedInPlace(f) ==
    LET p == ParentOf(children, Frame(f))
        q == ParentOf(children', Frame(f))
    IN  /\ frames'[f].processed
        /\ q.k = "wrapper"
        /\ Cardinality(WrapperAncestors(children', Frame(f))) = 1
        /\ ~frames[f].processed =>
                /\ Len(children'[p]) = Len(children[p])
                /\ children'[p][IndexOf(children[p], Frame(f))] = q
                /\ \A j \in DOMAIN children[p] :
                        children[p][j].k # "iframe" => children'[p][j] = children[p][j]

\* C4: after a scan every frame it discovered is marked processed and is inside
\* exactly one wrapper, its parent, which stands where the frame stood.
C4_ScannedFramesWrappedOnce ==
    [][ /\ onload =>
            \A f \in Range(NotProcessed(frames, FramesIn(children, Root))) :
                WrappedInPlace(f)
        /\ \A element \in {Root, Embed} :
            postProcessor(element) =>
                \A f \in Range(FramesIn(children, element)) : WrappedInPlace(f)
      ]_vars

\* C5: makeIframeResizable on a frame without a parent node changes nothing:
\* no marker, no change of attributes or styles, no wrapper and no handle.
C5_NoParentNoOp ==
    [][ \A f \in DOMAIN frames :
            (ParentOf(children, Frame(f)) = NoNode /\ call(f)) => UNCHANGED dom
      ]_vars

\* C6: once the plugin is unloaded no pointer event changes anything of what
\* it made: the frames, the tree, the wrappers' sizes, the handles' classes,
\* opacity and drag state, the overlays and the body's user-select.
C6_UnloadedPointerInert ==
    [][ (~loaded /\ (PointerDown \/ Pointer \/ Hover)) =>
            UNCHANGED <<frames, children, wrappers, handles, overlays, userSelect>>
      ]_vars

\* the handle of wrapper w at a position, and whether its resize listener acts
HandleAt(w, position) ==
    CHOOSE i \in DOMAIN handles : handles[i].w = w /\ handles[i].position = position
Dragging(i) == handles[i].isResizing /\ handles[i].listening

\* the sizes a pointer-move at (x, y) is to give with handle i
WidthAt(i, x) ==
    LET s == handles[i].startWidth + (x - handles[i].startX)
    IN  IF s < settings.minWidth THEN settings.minWidth ELSE s
HeightAt(i, y) ==
    LET s == handles[i].startHeight + (y - handles[i].startY)
    IN  IF s < settings.minHeight THEN settings.minHeight ELSE s

\* C7: on a pointer-move of a drag of the corner handle, a side whose start
\* size plus delta is below the minimum then in force gets exactly that
\* minimum, and no side ever gets less than it. (Where the edge handle of the
\* same side is being dragged too, its listener runs later and sets that side.)
C7_CornerClamp ==
    [][ \A p \in DragPoints : mousemove(p[1], p[2]) =>
            \A w \in DOMAIN wrappers :
                LET c == HandleAt(w, "bottom-right")
                    sw == handles[c].startWidth + (p[1] - handles[c].startX)
                    sh == handles[c].startHeight + (p[2] - handles[c].startY)
                IN  Dragging(c) =>
                        /\ wrappers'[w].width.u = "px"
                        /\ wrappers'[w].height.u = "px"
                        /\ wrappers'[w].width.n >= settings.minWidth
                        /\ wrappers'[w].height.n >= settings.minHeight
                        /\ (sw < settings.minWidth /\ ~Dragging(HandleAt(w, "right")))
                                => wrappers'[w].width = Px(settings.minWidth)
                        /\ (sh < settings.minHeight /\ ~Dragging(HandleAt(w, "bottom")))
                                => wrappers'[w].height = Px(settings.minHeight)
      ]_vars

\* C7 witness: a corner drag whose pointer went below the start by more than
\* the wrapper can shrink, with both sides at the minimum.
C7_Witness ==
    \E i \in DOMAIN handles : \E p \in DragPoints :
        /\ handles[i].position = "bottom-right"
        /\ Dragging(i)
        /\ handles[i].startWidth + (p[1] - handles[i].startX) < settings.minWidth
        /\ handles[i].startHeight + (p[2] - handles[i].startY) < settings.minHeight
        /\ handles[i].startWidth > settings.minWidth
        /\ handles[i].startHeight > settings.minHeight
        /\ wrappers[handles[i].w] =
                [width |-> Px(settings.minWidth), height |-> Px(settings.minHeight)]

\* C8: a pointer-move sets each side from the pointer position and the size
\* taken at pointer-down, as max(minimum, start + delta): the corner handle
\* sets both sides, the bottom handle the height alone, the right handle the
\* width alone, and a side no dragged handle sets keeps its size. (Of two
\* dragged handles of one side the edge handle's listener runs last.)
C8_DragArithmetic ==
    [][ \A p \in DragPoints : mousemove(p[1], p[2]) =>
            \A w \in DOMAIN wrappers :
                LET c == HandleAt(w, "bottom-right")
                    b == HandleAt(w, "bottom")
                    r == HandleAt(w, "right")
                IN  /\ wrappers'[w].width =
                            IF Dragging(r) THEN Px(WidthAt(r, p[1]))
                            ELSE IF Dragging(c) THEN Px(WidthAt(c, p[1]))
                            ELSE wrappers[w].width
                    /\ wrappers'[w].height =
                            IF Dragging(b) THEN Px(HeightAt(b, p[2]))
                            ELSE IF Dragging(c) THEN Px(HeightAt(c, p[2]))
                            ELSE wrappers[w].height
      ]_vars

\* C8 witness: the corner handle dragged by (+50, +30) from 600 x 400.
C8_Witness ==
    \E i \in DOMAIN handles :
        /\ handles[i].position = "bottom-right"
        /\ Dragging(i)
        /\ handles[i].startWidth = 600 /\ handles[i].startHeight = 400
        /\ handles[i].startX = 0 /\ handles[i].startY = 0
        /\ wrappers[handles[i].w] = [width |-> Px(650), height |-> Px(430)]

\* C9: in every state in which no handle is dragging the document holds no
\* 'iframe-resize-overlay' element.
C9_NoOverlayWhenIdle ==
    (\A i \in DOMAIN handles : ~handles[i].isResizing) => overlays = 0

\* the first of attribute, computed style and default that is there, the
\* default standing in for a size in per cent
ByPriority(attr, computed, default) ==
    LET first == IF attr # EmptyStr THEN attr
                 ELSE IF computed # EmptyStr THEN computed
                 ELSE Px(default)
    IN  IF first.u = "%" THEN Px(default) ELSE first

\* C10: the initial size of a wrapper is, for each side, the frame's attribute,
\* else its computed style, else the default (600 wide, 400 high; there are
\* no saved entries), and the size written to a wrapper is a pixel size.
C10_InitialSizeByPriorityInPixels ==
    /\ \A a \in Attributes : \A c \in ComputedStyles :
            /\ InitialSize(a.width, c.width, DefaultWidth)
                    = ByPriority(a.width, c.width, 600)
            /\ InitialSize(a.height, c.height, DefaultHeight)
                    = ByPriority(a.height, c.height, 400)
    /\ \A w \in DOMAIN wrappers :
            wrappers[w].width.u = "px" /\ wrappers[w].height.u = "px"

\* the wrapper a scan has put around frame f, and the scan that ran with the
\* computed styles css
NewWrapperOf(f) == wrappers'[ParentOf(children', Frame(f)).i]
ScanWith(fs, css) ==
    Dom(frames', children', wrappers', handles')
        = forEach(Dom(frames, children, wrappers, handles), fs, css)
Plain(f) == frames[f].width = EmptyStr /\ frames[f].height = EmptyStr

PercentGetsDefault(f) ==
    /\ frames[f].width.u = "%" => NewWrapperOf(f).width = Px(600)
    /\ frames[f].height.u = "%" => NewWrapperOf(f).height = Px(400)

\* C12: a size in per cent is never used: a frame whose width (height)
\* attribute holds '%' gets a wrapper 600px wide (400px high), whatever the
\* attribute of the other side is.
C12_PercentGetsDefault ==
    [][ /\ onload =>
            \A f \in Range(NotProcessed(frames, FramesIn(children, Root))) :
                PercentGetsDefault(f)
        /\ \A element \in {Root, Embed} :
            postProcessor(element) =>
                \A f \in Range(NotProcessed(frames, FramesIn(children, element))) :
                    PercentGetsDefault(f)
      ]_vars

\* C12 witness: a frame with width "300" and height "50%" has been wrapped:
\* the height is the default, the width is the attribute's.
C12_Witness ==
    \E w \in DOMAIN wrappers :
        wrappers[w] = [width |-> Str(300, "num"), height |-> Px(400)]

\* the positive number an input text stands for, 0 where it stands for none:
\* "700" and " 700px" (read by its leading digits) are 700; "-5", "0", "" and
\* "ab" are no positive number
Meant(value) ==
    CASE value = <<"7", "0", "0">> -> 700
      [] value = <<" ", "7", "0", "0", "p", "x">> -> 700
      [] OTHER -> 0

C14_MouseupEndsEveryDrag ==
    [][ mouseup =>
            \A i \in DOMAIN handles :
                ~handles'[i].isResizing /\ ~handles'[i].resizing
      ]_vars

\* C17: a frame that lies inside the host's embed container is wrapped at the
\* level of the embed element: the wrapper stands where the embed element
\* stood and holds it, and the frame is still the embed element's child.
C17_WrappedAtEmbedLevel ==
    \A f \in DOMAIN frames :
        (frames[f].processed /\ Embed \in Range(Ancestors(children, Frame(f)))) =>
            /\ ParentOf(children, Frame(f)) = Embed
            /\ ParentOf(children, Embed).k = "wrapper"

\* C18: at most one handle is in the dragging state at any time, over all
\* handles of all wrappers.
C18_AtMostOneDragging ==
    Cardinality({i \in DOMAIN handles : handles[i].isResizing}) <= 1

\* the wrappers whose size a step changes
Resized == {w \in DOMAIN wrappers : wrappers'[w] # wrappers[w]}

\* C19: a pointer-move changes the size of no wrapper but the one whose handle
\* got the last pointer-down, so of one wrapper at most, and that one has a
\* handle being dragged; a pointer-move while no handle is being dragged
\* changes no wrapper's size.
C19_MoveResizesOneWrapper ==
    [][ \A p \in Points : mousemove(p[1], p[2]) =>
            /\ Cardinality(Resized) <= 1
            /\ \A w \in Resized :
                    \E i \in DOMAIN handles : handles[i].w = w /\ handles[i].isResizing
            /\ (\A i \in DOMAIN handles : ~handles[i].isResizing) => Resized = {}
      ]_vars

\* the handles of wrapper w
HandlesOf(w) == {i \in DOMAIN handles : handles[i].w = w}

\* what C16 says of a state
HoverGated ==
    \A w \in DOMAIN wrappers :
        /\ (w \notin hovered /\ \A i \in HandlesOf(w) : ~handles[i].isResizing)
                => \A i \in HandlesOf(w) : handles[i].opacity = "0"
        /\ w \in hovered => \A i \in HandlesOf(w) : handles[i].opacity = "0.5"

\* C16: in every state, the handles of a wrapper the pointer is not over, none
\* of them being dragged, all have opacity 0, and the handles of a wrapper the
\* pointer is over all have opacity 0.5; and a handle that is being dragged
\* and is visible keeps opacity 0.5 when the pointer leaves its wrapper.
C16_HoverGatedHandles ==
    /\ HoverGated
    /\ [][ /\ HoverGated'
           /\ \A w \in DOMAIN wrappers : mouseleave(w) =>
                \A i \in HandlesOf(w) :
                    (handles[i].isResizing /\ handles[i].opacity = "0.5")
                        => handles'[i].opacity = "0.5"
         ]_vars

\* C16 witness: the pointer has left a wrapper during a drag: the dragged
\* handle is still visible and the other two are hidden.
C16_Witness ==
    \E w \in DOMAIN wrappers :
        /\ w \notin hovered
        /\ \E i \in HandlesOf(w) :
            /\ handles[i].isResizing
            /\ handles[i].opacity = "0.5"
            /\ \A j \in HandlesOf(w) \ {i} : handles[j].opacity = "0"

\* the frames there are: the one of the document and the one rendered later
Frames == {1, Detached}

\* C15: where the plugin stays loaded in the end, every frame that is in a
\* rendered view, there at the load or rendered into it later, is eventually
\* inside a wrapper.
C15_EveryFrameEventuallyWrapped ==
    (<>[]loaded) => \A f \in Frames : InDoc(f) ~> (WrappersOf(f) # {})

====
